---- MODULE Spec2Model ----
(***************************************************************************)
(* Model of the external peer protocol engine of UFO Galaxy:               *)
(*   - DeviceCommunication (src/core/device_communication.py): socket      *)
(*     peers, request/response correlation, heartbeat monitor;             *)
(*   - MCPLoader (src/core/mcp_loader.py): process peers speaking          *)
(*     line-delimited JSON-RPC over stdin/stdout.                          *)
(* A step of the model is what one coroutine runs between two points       *)
(* where it really suspends (socket I/O, asyncio.sleep, wait_for).         *)
(***************************************************************************)
EXTENDS Integers, Sequences, FiniteSets, TLC

\* ------------------------------------------------------------------ bounds
MaxObjects == 3     \* connect and send_command invocations in one run

MaxLoaderObjects == 2   \* MCPServerInstance objects and subprocesses created in one run
MaxRequests == 4    \* no call is issued once _request_id has reached this
MaxListed == 2      \* entries an MCPServer.tools list may reach
MaxSubtasks == 1    \* subtasks of one coordinated task
MaxExecuting == 2   \* execute_task coroutines suspended at one time
MaxStale == 1       \* unread lines a peer may leave in its stdout pipe

Devices == {"d1"}

\* ------------------------------------------------------- program constants
heartbeat_timeout == 60

\* The clock is observed at multiples of the heartbeat timeout.
TickSeconds == heartbeat_timeout

VARIABLES
    connections,    \* DeviceCommunication.connections: device_id -> conn id, 0 = absent
    order,          \* iteration order of the connections dict (insertion order)
    conn,           \* every DeviceConnection object created so far, by conn id
    calls,          \* every send_command invocation so far; its index is its message_id
    registry,       \* device_registry.devices: device_id -> status, "absent" = no record
    hbTask,         \* position of the _heartbeat_loop task
    hbQueue,        \* what is left of list(self.connections.items()) in the sweep
    reply,          \* what handle_message returns in this step; NoReply for None
                    \* and after every step of another coroutine
    servers,        \* MCPLoader.servers: the ids of the loaded server objects
    server,         \* every MCPServerInstance created so far, by server id
    proc,           \* every subprocess spawned so far, by pid
    request_id,     \* MCPLoader._request_id
    starts,         \* start() coroutines suspended in asyncio.sleep(0.5)
    hs,             \* the start() coroutine that is inside _initialize, if any
    loop,           \* "blocked" once a readline() waits for a peer that stays silent
    ret,            \* what the MCPLoader call that finished in this step returned
    manager,        \* MCPManager: per server name its entry, whether self.tools
                    \* has a tool of it, and the request ids written to its process
    codec,          \* a DeviceMessage, the text to_json made of it and the
                    \* DeviceMessage from_json made of that text
    coordinator     \* MultiDeviceCoordinator: devices, tasks and the execute_task
                    \* coroutines suspended in _send_command

devVars == <<connections, order, conn, calls, registry, hbTask, hbQueue, reply>>
mcpVars == <<servers, server, proc, request_id, starts, hs, loop, ret>>

vars == <<devVars, mcpVars, manager, codec, coordinator>>

\* ------------------------------------------------------------ message model
\* An inbound text frame, reduced to what handle_message looks at.
\*   json       : json.loads succeeds and yields an object
\*   type       : value of the "type" key, "" when the key is missing
\*   payload    : value of the "payload" key, "absent" when the key is missing
\*   correlation_id : value of the "correlation_id" key, 0 = "" / missing
MsgTypes == {"handshake", "heartbeat", "response", "status", "event", "error",
             "command", "TEXT", "bogus", ""}
Payloads == {"absent", "P"}
\*   platform   : value of the "platform" key, read for handshakes: "str" a
\*                string or missing (the default "android"), "null" otherwise
Frame(j, t, p, k) ==
    [json |-> j, type |-> t, payload |-> p, correlation_id |-> k, platform |-> "str"]
\* The frames fed to handle_message: text that is not a JSON object, every type
\* with and without a payload, and responses and errors with every
\* correlation_id in use (correlation_id is read for responses only).
Frames ==
    {Frame(FALSE, "", "absent", 0)}
    \cup {Frame(TRUE, t, p, 0) : t \in MsgTypes, p \in Payloads}
    \cup {Frame(TRUE, "response", p, k) : p \in Payloads, k \in 1..MaxObjects}
    \cup {Frame(TRUE, "error", "P", k) : k \in 1..MaxObjects}
    \cup {[Frame(TRUE, "handshake", "absent", 0) EXCEPT !.platform = "null"]}

\* MessageType values (device_communication.py:49-67)
MessageType == {"command", "response", "ack", "heartbeat", "status", "event",
                "error", "stream_start", "stream_data", "stream_end"}

NoReply == [type |-> "none", action |-> ""]
Ack(a) == [type |-> "ack", action |-> a]

\* DeviceMessage.from_json: the type of the decoded message, "raise" when
\* MessageType(...) rejects the value; a missing type defaults to "command".
from_json(f) ==
    IF f.type = "" THEN "command"
    ELSE IF f.type \in MessageType THEN f.type
    ELSE "raise"

\* The payload a decoded message carries: obj.get("payload", {}).
PayloadOf(f) == IF f.payload = "absent" THEN "empty" ELSE f.payload

\* handle_message lines 443-454: the DeviceMessage type the frame is turned into.
ParsedType(f) ==
    IF f.type # "" /\ f.payload # "absent"
    THEN (IF f.type \in {"TEXT", "COMMAND"} THEN "command" ELSE "event")
    ELSE from_json(f)

\* Time is kept per connection as silence = time.time() - last_heartbeat,
\* saturated at heartbeat_timeout (is_alive reads nothing else of the clock).
\* `conn.last_heartbeat = time.time()` is silence = 0.
Aged(t) == IF t + TickSeconds >= heartbeat_timeout THEN heartbeat_timeout
           ELSE t + TickSeconds

\* Variant of is_alive: a liveness test that never fails.
AlwaysAlive(c) == TRUE

\* DeviceConnection.is_alive
is_alive(c) == conn[c].silence < heartbeat_timeout

\* DeviceRegistry.update_status(device_id, status): no record, no change.
update_status(d, s) ==
    IF registry[d] = "absent" THEN registry ELSE [registry EXCEPT ![d] = s]

Remove(seq, x) == SelectSeq(seq, LAMBDA y : y # x)

\* --------------------------------------------------------------- Init
InitDevice ==
    /\ connections = [d \in Devices |-> 0]
    /\ order = <<>>
    /\ conn = <<>>
    /\ calls = <<>>
    /\ registry = [d \in Devices |-> "absent"]
    /\ hbTask = "none"
    /\ hbQueue = <<>>
    /\ reply = NoReply

\* ---------------------------------------------------- MCPLoader: wire
\* A line of a peer's stdout as MCPResponse.from_json decodes it: id 0 stands
\* for a line without "id" (a notification), result "null" for no result.
Line(n, r, e) == [id |-> n, result |-> r, error |-> e]
Notification == Line(0, "null", FALSE)
\* _send_request returning None.
None == Line(-1, "null", FALSE)

\* What a live peer does when it reads request n from its stdin.
Reactions == {"answer", "error", "notify", "close", "silent"}
Emits(reaction, n) ==
    CASE reaction = "answer" -> <<Line(n, "ok", FALSE)>>
      [] reaction = "error"  -> <<Line(n, "null", TRUE)>>
      [] reaction = "notify" -> <<Notification, Line(n, "ok", FALSE)>>
      [] OTHER -> <<>>

\* MCPLoader._send_request(server_id, method) for the server object holding
\* process p: the process table, the id counter and the event loop afterwards,
\* the MCPResponse returned (None when nothing is returned), the id taken and
\* the request lines written to the peer's stdin.
\*   lines 390-392: unknown server or no process, return None
\*   lines 394-404: next id, write and flush (BrokenPipeError when the process
\*                  has exited: logged, None)
\*   lines 407-409: one readline(), decoded whatever its id is; "" at EOF;
\*                  a live peer that writes nothing keeps readline() waiting
_send_request(s, p, method, reaction) ==
    IF s \notin servers \/ p = 0
    THEN [proc |-> proc, request_id |-> request_id, loop |-> loop,
          resp |-> None, sent |-> <<>>, id |-> 0]
    ELSE LET n == request_id + 1
             out == proc[p].stdout \o Emits(reaction, n)
         IN  IF proc[p].state # "alive"
             THEN [proc |-> proc, request_id |-> n, loop |-> loop,
                   resp |-> None, sent |-> <<>>, id |-> n]
             ELSE [proc |-> [proc EXCEPT ![p] =
                       IF reaction = "close" THEN [state |-> "exited", stdout |-> <<>>]
                       ELSE [state |-> "alive",
                             stdout |-> IF out = <<>> THEN <<>> ELSE Tail(out)]],
                   request_id |-> n,
                   loop |-> IF out = <<>> /\ reaction = "silent"
                            THEN "blocked" ELSE loop,
                   resp |-> IF out = <<>> THEN None ELSE Head(out),
                   sent |-> <<method>>, id |-> n]

\* A peer reaction is considered only while it keeps the pipe within MaxStale.
Fits(p, reaction) ==
    IF p = 0 THEN TRUE
    ELSE Len(proc[p].stdout) + Len(Emits(reaction, 1)) <= MaxStale + 1

\* ret: the call that returned in this step (op "none": none did), the server
\* it was about, its success flag, the server status it found, the request
\* lines it wrote, the id of its request and the id of the response it
\* handed back (-1: none).
NoRet == [op |-> "none", server |-> 0, ok |-> FALSE, status |-> "", sent |-> <<>>,
          request |-> 0, response |-> -1]

\* hs: no start() is inside _initialize.
Idle == [server |-> 0, caller |-> "", next |-> "", wrote |-> ""]

InitLoader ==
    /\ servers = {}
    /\ server = <<>>
    /\ proc = <<>>
    /\ request_id = 0
    /\ starts = {}
    /\ hs = Idle
    /\ loop = "running"
    /\ ret = NoRet

\* The names MCPManager's servers are loaded under.
ManagerNames == {"a", "b"}

\* MCPManager.__init__ (mcp_manager.py:97-108): no server, no tool. For
\* every name:
\*   loaded   : self.servers holds an entry of that name
\*   status   : MCPServer.status
\*   process  : MCPServer.process: "none", or the state of the subprocess
\*   tools    : self.tools maps the tool name t to a tool of this server
\*              (the peers all advertise the same tool name)
\*   sleeping : a start_server() coroutine is in asyncio.sleep(1)
\*   ids      : the "id" of every request written to the current process
\*   listed   : the length of MCPServer.tools
\*   last     : history, the number of tools in the last tools/list reply of
\*              this entry that had a "tools" key
\*   orphan   : history, a handle to a live subprocess started under this
\*              name was dropped without terminate()
NewEntry ==
    [loaded |-> FALSE, status |-> "stopped", process |-> "none",
     tools |-> FALSE, sleeping |-> FALSE, ids |-> <<>>, listed |-> 0, last |-> 0,
     orphan |-> FALSE]

InitManager == manager = [n \in ManagerNames |-> NewEntry]

\* ---------------------------------------------------- DeviceMessage codec
\* MessageType: member name -> value (device_communication.py:49-67).
MessageTypeValue ==
    [COMMAND |-> "command", RESPONSE |-> "response", ACK |-> "ack",
     HEARTBEAT |-> "heartbeat", STATUS |-> "status", EVENT |-> "event",
     ERROR |-> "error", STREAM_START |-> "stream_start",
     STREAM_DATA |-> "stream_data", STREAM_END |-> "stream_end"]

\* MessageType(value): the member of that value.
MessageTypeOf(value) ==
    CHOOSE t \in DOMAIN MessageTypeValue : MessageTypeValue[t] = value

\* Python payloads, written as their repr: dicts of JSON values, a dict
\* holding a tuple, a dict with an int key, and None.
JsonPayloads == {"{}", "{'k': 'v'}", "{'k': [1, 2]}", "None"}
PyPayloads == JsonPayloads \cup {"{'k': (1, 2)}", "{1: 'v'}"}
\* Python numbers for the timestamp.
PyTimestamps == {"1.5", "5", "nan"}
PyStrings == {"", "x"}

\* json.dumps of a payload: a tuple is written as an array, a key that is
\* not a string as its string.
dumps(p) ==
    CASE p = "{}" -> <<"object", "{}">>
      [] p = "{'k': 'v'}" -> <<"object", "{\"k\": \"v\"}">>
      [] p = "{'k': [1, 2]}" -> <<"object", "{\"k\": [1, 2]}">>
      [] p = "{'k': (1, 2)}" -> <<"object", "{\"k\": [1, 2]}">>
      [] p = "{1: 'v'}" -> <<"object", "{\"1\": \"v\"}">>
      [] p = "None" -> <<"null", "null">>

\* json.loads of such a text: arrays become lists, keys are strings.
loads(j) ==
    CASE j[2] = "{}" -> "{}"
      [] j[2] = "{\"k\": \"v\"}" -> "{'k': 'v'}"
      [] j[2] = "{\"k\": [1, 2]}" -> "{'k': [1, 2]}"
      [] j[2] = "{\"1\": \"v\"}" -> "{'1': 'v'}"
      [] j[2] = "null" -> "None"

\* json.dumps and json.loads of a number: an int stays an int, NaN is
\* written as NaN and read back as a float nan.
dumps_number(n) == <<"number", IF n = "nan" THEN "NaN" ELSE n>>
loads_number(j) == IF j[2] = "NaN" THEN "nan" ELSE j[2]

\* to_json without its correlation_id member.
to_json_without_correlation(m) ==
    [type |-> <<"string", MessageTypeValue[m.type]>>,
     action |-> <<"string", m.action>>,
     payload |-> dumps(m.payload),
     message_id |-> <<"string", m.message_id>>,
     timestamp |-> dumps_number(m.timestamp),
     device_id |-> <<"string", m.device_id>>]

\* DeviceMessage.to_json (lines 81-90): the JSON object, member by member.
to_json(m) ==
    [type |-> <<"string", MessageTypeValue[m.type]>>,
     action |-> <<"string", m.action>>,
     payload |-> dumps(m.payload),
     message_id |-> <<"string", m.message_id>>,
     timestamp |-> dumps_number(m.timestamp),
     device_id |-> <<"string", m.device_id>>,
     correlation_id |-> <<"string", m.correlation_id>>]

\* obj.get(key, default) for a member that is a string.
get(obj, key, default) == IF key \in DOMAIN obj THEN obj[key][2] ELSE default

\* DeviceMessage.from_json (lines 92-103) of a JSON object; a missing
\* timestamp is the time of decoding, a number of its own.
DeviceMessage_from_json(obj) ==
    [type |-> MessageTypeOf(get(obj, "type", "command")),
     action |-> get(obj, "action", ""),
     payload |-> IF "payload" \in DOMAIN obj THEN loads(obj.payload) ELSE "{}",
     message_id |-> get(obj, "message_id", ""),
     timestamp |-> IF "timestamp" \in DOMAIN obj
                   THEN loads_number(obj.timestamp) ELSE "now",
     device_id |-> get(obj, "device_id", ""),
     correlation_id |-> get(obj, "correlation_id", "")]

\* The DeviceMessage objects whose round trip is looked at.
Messages ==
    [type : DOMAIN MessageTypeValue, action : PyStrings, payload : PyPayloads,
     message_id : PyStrings, timestamp : PyTimestamps, device_id : PyStrings,
     correlation_id : PyStrings]

\* The dataclass __eq__ of two DeviceMessage objects that are not the same
\* object: field by field with ==, under which a nan equals nothing.
Equal(a, b) == a = b /\ a.timestamp # "nan"

\* ------------------------------------------------ MultiDeviceCoordinator
CoordDevices == <<"d1", "d2">>      \* self.devices in insertion order
CoordTasks == <<"t1", "t2">>        \* the task ids uuid4 gives out, in order
device_type == [d \in {"d1", "d2"} |-> "android"]

\* The required_devices lists a caller passes to create_task: a device id or a
\* device type per entry.
Requirements == {<<"d1">>, <<"d2">>, <<"android">>, <<"d1", "d2">>}

Elements(seq) == {seq[i] : i \in 1..Len(seq)}

\* A Device as POST /devices registers it.
NewDevice == [state |-> "idle", current_task |-> "none"]
\* A key that is not in self.tasks.
NoTask == [state |-> "absent", required_devices |-> <<>>, subtasks |-> 0,
           assigned_devices |-> <<>>]

\* The coordinator with its two devices registered and no task.
Registered ==
    [devices |-> [d \in Elements(CoordDevices) |-> NewDevice],
     tasks |-> [t \in Elements(CoordTasks) |-> NoTask],
     executing |-> <<>>]

\* The inner loop of _find_available_devices for one requirement, from
\* position i of self.devices.values(): the first IDLE device that matches by
\* id or by type and is not yet in the list is appended.
RECURSIVE ScanDevices(_, _, _, _)
ScanDevices(devices, req, available, i) ==
    IF i > Len(CoordDevices) THEN available
    ELSE LET d == CoordDevices[i]
         IN IF /\ devices[d].state = "idle"
               /\ (d = req \/ device_type[d] = req)
               /\ d \notin Elements(available)
            THEN Append(available, d)
            ELSE ScanDevices(devices, req, available, i + 1)

\* _find_available_devices(requirements), from requirement i on.
RECURSIVE find_available_devices(_, _, _, _)
find_available_devices(devices, requirements, available, i) ==
    IF i > Len(requirements) THEN available
    ELSE find_available_devices(devices, requirements,
                                ScanDevices(devices, requirements[i], available, 1),
                                i + 1)

\* Whether assign_task(t) finds enough devices.
Assignable(c, t) ==
    Len(find_available_devices(c.devices, c.tasks[t].required_devices, <<>>, 1))
        >= Len(c.tasks[t].required_devices)

\* The coordinator after the body of assign_task(t) past its two early
\* returns: the task takes the devices found and every one of them becomes
\* BUSY with current_task = t.
Assigned(c, t) ==
    LET available == find_available_devices(c.devices, c.tasks[t].required_devices, <<>>, 1)
    IN [c EXCEPT !.tasks[t].assigned_devices = available,
                 !.tasks[t].state = "assigned",
                 !.devices = [d \in DOMAIN c.devices |->
                                 IF d \in Elements(available)
                                 THEN [state |-> "busy", current_task |-> t]
                                 ELSE c.devices[d]]]

\* The loop that frees the devices of task.assigned_devices, in cancel_task
\* and in the finally block of execute_task.
Released(c, t) ==
    [c EXCEPT !.devices = [d \in DOMAIN c.devices |->
                              IF d \in Elements(c.tasks[t].assigned_devices)
                              THEN [state |-> "idle", current_task |-> "none"]
                              ELSE c.devices[d]]]

\* The end of execute_task(t) when no subtask is left: COMPLETED, then the
\* finally block.
Completed(c, t) == Released([c EXCEPT !.tasks[t].state = "completed"], t)

CoordinatorUnchanged == UNCHANGED <<devVars, mcpVars, manager, codec>>

\* create_task(name, description, required_devices, subtasks) with n subtasks
\* that address registered devices; the queue is unbounded, put does not wait.
create_task(required, n) ==
    /\ \E i \in 1..Len(CoordTasks) :
          /\ coordinator.tasks[CoordTasks[i]].state = "absent"
          /\ \A j \in 1..(i - 1) : coordinator.tasks[CoordTasks[j]].state # "absent"
          /\ coordinator' = [coordinator EXCEPT !.tasks[CoordTasks[i]] =
                                [state |-> "pending", required_devices |-> required,
                                 subtasks |-> n, assigned_devices |-> <<>>]]
    /\ CoordinatorUnchanged

\* assign_task(t)
assign_task(t) ==
    /\ coordinator.tasks[t].state # "absent"
    /\ coordinator' = IF Assignable(coordinator, t)
                      THEN Assigned(coordinator, t) ELSE coordinator
    /\ CoordinatorUnchanged

\* execute_task(t) up to its first await of _send_command, or to its return
\* when the assignment fails or the task has no subtasks. assign_task has no
\* await of its own, so nothing runs between the test of task.state and the
\* first command.
execute_task(t) ==
    /\ coordinator.tasks[t].state # "absent"
    /\ LET assigned == coordinator.tasks[t].state = "assigned"
           c == IF assigned THEN coordinator ELSE Assigned(coordinator, t)
           running == [c EXCEPT !.tasks[t].state = "running"]
       IN IF ~assigned /\ ~Assignable(coordinator, t)
          THEN UNCHANGED coordinator
          ELSE IF coordinator.tasks[t].subtasks = 0
               THEN coordinator' = Completed(running, t)
               ELSE /\ Len(coordinator.executing) < MaxExecuting
                    /\ coordinator' =
                          [running EXCEPT !.executing =
                              Append(@, [task |-> t, left |-> coordinator.tasks[t].subtasks])]
    /\ CoordinatorUnchanged

\* The command that execute_task coroutine e waits for returns (a failure is
\* a result too: _send_command catches every exception); with subtasks left
\* the coroutine sends the next one, without them it completes the task and
\* frees task.assigned_devices as that list is now.
execute_resume(e) ==
    /\ e \in 1..Len(coordinator.executing)
    /\ LET t == coordinator.executing[e].task
           left == coordinator.executing[e].left - 1
           rest == [i \in 1..(Len(coordinator.executing) - 1) |->
                       coordinator.executing[IF i < e THEN i ELSE i + 1]]
       IN coordinator' =
             IF left > 0
             THEN [coordinator EXCEPT !.executing[e].left = left]
             ELSE Completed([coordinator EXCEPT !.executing = rest], t)
    /\ CoordinatorUnchanged

\* cancel_task(t)
cancel_task(t) ==
    /\ coordinator.tasks[t].state # "absent"
    /\ coordinator' = Released([coordinator EXCEPT !.tasks[t].state = "cancelled"], t)
    /\ CoordinatorUnchanged

NextCoordinator ==
    \/ \E required \in Requirements, n \in 0..MaxSubtasks : create_task(required, n)
    \/ \E t \in Elements(CoordTasks) : assign_task(t)
    \/ \E t \in Elements(CoordTasks) : execute_task(t)
    \/ \E e \in 1..MaxExecuting : execute_resume(e)
    \/ \E t \in Elements(CoordTasks) : cancel_task(t)

\* No message is being converted.
Unused == [stage |-> "unused", msg |-> <<>>, wire |-> <<>>, decoded |-> <<>>]

Init == InitDevice /\ InitLoader /\ InitManager /\ codec = Unused /\ coordinator = Registered

SpecCoordinator == Init /\ [][NextCoordinator]_vars

\* A message has been built by a caller.
InitCodec ==
    /\ InitDevice /\ InitLoader /\ InitManager
    /\ \E m \in Messages :
          codec = [stage |-> "built", msg |-> m, wire |-> <<>>, decoded |-> <<>>]
    /\ coordinator = Registered

\* text = m.to_json()
encode ==
    /\ codec.stage = "built"
    /\ codec' = [codec EXCEPT !.stage = "encoded", !.wire = to_json(codec.msg)]
    /\ UNCHANGED <<devVars, mcpVars, manager, coordinator>>

\* DeviceMessage.from_json(text)
decode ==
    /\ codec.stage = "encoded"
    /\ codec' = [codec EXCEPT !.stage = "decoded",
                              !.decoded = DeviceMessage_from_json(codec.wire)]
    /\ UNCHANGED <<devVars, mcpVars, manager, coordinator>>

NextCodec == encode \/ decode

SpecCodec == InitCodec /\ [][NextCodec]_vars

\* ---------------------------------------------------------------- actions
\* TickSeconds of wall-clock time pass.
Tick ==
    /\ conn' = [c \in 1..Len(conn) |-> [conn[c] EXCEPT !.silence = Aged(@)]]
    /\ reply' = NoReply
    /\ UNCHANGED <<mcpVars, manager, codec, coordinator>>
    /\ UNCHANGED <<connections, order, calls, registry, hbTask, hbQueue>>

\* connect(device_id, websocket): runs without suspending.
connect(d) ==
    /\ Len(conn) + Len(calls) < MaxObjects
    /\ conn' = Append(conn, [device_id |-> d, silence |-> 0,
                             websocket |-> "open", stop |-> "no",
                             status |-> "connected",
                             pending_requests |-> {}])
    /\ connections' = [connections EXCEPT ![d] = Len(conn) + 1]
    /\ order' = IF connections[d] = 0 THEN Append(order, d) ELSE order
    /\ registry' = update_status(d, "online")
    /\ hbTask' = IF hbTask = "none" THEN "sleep" ELSE hbTask
    /\ reply' = NoReply
    /\ UNCHANGED <<mcpVars, manager, codec, coordinator>>
    /\ UNCHANGED <<calls, hbQueue>>

\* disconnect(device_id) up to `await conn.websocket.close()`: the entry is
\* popped, then the coroutine suspends in close().
disconnect_pop(d, by) ==
    /\ connections[d] # 0
    /\ connections' = [connections EXCEPT ![d] = 0]
    /\ order' = Remove(order, d)
    /\ conn' = [conn EXCEPT ![connections[d]].stop = by]

\* disconnect(device_id) called by a user of the engine.
disconnect(d) ==
    /\ disconnect_pop(d, "caller")
    /\ reply' = NoReply
    /\ UNCHANGED <<mcpVars, manager, codec, coordinator>>
    /\ UNCHANGED <<calls, registry, hbTask, hbQueue>>

\* Where the sweep goes after an item: the next item, or back to sleep.
AfterItem(rest) == IF rest = <<>> THEN "sleep" ELSE "sweep"

\* disconnect(device_id) after close() returned or raised: registry update,
\* "disconnected" event, return True.
disconnect_finish(c) ==
    /\ c \in 1..Len(conn)
    /\ conn[c].stop \in {"caller", "monitor"}
    /\ conn' = [conn EXCEPT ![c].stop = "closed", ![c].websocket = "closed"]
    /\ registry' = update_status(conn[c].device_id, "offline")
    /\ hbTask' = IF conn[c].stop = "monitor" THEN AfterItem(hbQueue) ELSE hbTask
    /\ reply' = NoReply
    /\ UNCHANGED <<mcpVars, manager, codec, coordinator>>
    /\ UNCHANGED <<connections, order, calls, hbQueue>>

\* ---------------------------------------------------------- send_command
\* The record of a send_command invocation that got past the connection check.
\*   conn     : the DeviceConnection object the coroutine holds
\*   sent     : send() returned True
\*   state    : "waiting" in wait_for, "returned" after the return statement
\*   future   : the asyncio.Future registered in pending_requests
\*   value    : what future.set_result was given
\*   result   : the returned dict; a payload stands for the payload dict
\*   answered : history, the payload of the first well-formed response frame
\*              with this call's message_id that handle_message was given for
\*              this call's connection while the call was waiting
NewCall(d, sent) ==
    [device_id |-> d, conn |-> connections[d], sent |-> sent,
     state |-> IF sent THEN "waiting" ELSE "returned",
     future |-> "pending", value |-> "none",
     result |-> IF sent THEN "none" ELSE "send_failed",
     answered |-> "none"]

\* send_command up to the suspension in wait_for. The message_id is fresh
\* (uuid4); the write in send() succeeds or raises, which is the peer's and
\* the network's choice. When the write fails the entry registered at line 333
\* is popped by the finally clause before anything else runs.
send_command(d) ==
    /\ Len(conn) + Len(calls) < MaxObjects
    /\ connections[d] # 0
    /\ \E sent \in BOOLEAN :
         /\ calls' = Append(calls, NewCall(d, sent))
         /\ conn' = IF sent
                    THEN [conn EXCEPT ![connections[d]].pending_requests =
                                          @ \cup {Len(calls) + 1}]
                    ELSE conn
    /\ reply' = NoReply
    /\ UNCHANGED <<mcpVars, manager, codec, coordinator>>
    /\ UNCHANGED <<connections, order, registry, hbTask, hbQueue>>

\* Variant of PopEntry: a send_command without its finally clause.
KeepEntry(m) == conn

\* The finally clause of send_command (line 352).
PopEntry(m) ==
    [conn EXCEPT ![calls[m].conn].pending_requests = @ \ {m}]

\* wait_for returns the future's result: lines 342-345, then finally.
command_return(m) ==
    /\ m \in 1..Len(calls)
    /\ calls[m].state = "waiting"
    /\ calls[m].future = "done"
    /\ calls' = [calls EXCEPT ![m].state = "returned", ![m].result = calls[m].value]
    /\ conn' = PopEntry(m)
    /\ reply' = NoReply
    /\ UNCHANGED <<mcpVars, manager, codec, coordinator>>
    /\ UNCHANGED <<connections, order, registry, hbTask, hbQueue>>

\* Variant of TimedOut: the TimeoutError handler returns the generic failure.
TimedOutAsFailure(m) ==
    [calls EXCEPT ![m].state = "returned", ![m].future = "cancelled",
                  ![m].result = "send_failed"]

\* Lines 347-348: wait_for cancels the future and raises TimeoutError, the
\* handler returns {"success": False, "error": "命令超时"}.
TimedOut(m) ==
    [calls EXCEPT ![m].state = "returned", ![m].future = "cancelled",
                  ![m].result = "timeout"]

\* wait_for raises TimeoutError, then finally. The timeout T is any duration:
\* it elapses whenever the future is still pending.
command_timeout(m) ==
    /\ m \in 1..Len(calls)
    /\ calls[m].state = "waiting"
    /\ calls[m].future = "pending"
    /\ calls' = TimedOut(m)
    /\ conn' = PopEntry(m)
    /\ reply' = NoReply
    /\ UNCHANGED <<mcpVars, manager, codec, coordinator>>
    /\ UNCHANGED <<connections, order, registry, hbTask, hbQueue>>

\* --------------------------------------------------------- handle_message
\* Variant of Dispatch: handle_message without the raw heartbeat branch of
\* lines 436-441.
DispatchWithoutRawHeartbeat(f) ==
    IF ~f.json THEN "drop"
    ELSE IF f.type = "handshake" THEN "handshake"
    ELSE IF ParsedType(f) = "raise" THEN "drop"
    ELSE ParsedType(f)

\* What handle_message does with a frame for a connected device:
\*   "drop"      an exception is caught at line 512, None is returned
\*   "handshake" lines 407-433       "heartbeat" lines 436-441
\*   otherwise the type of the DeviceMessage built at lines 444-454
Dispatch(f) ==
    IF ~f.json THEN "drop"
    ELSE IF f.type = "handshake" THEN "handshake"
    ELSE IF f.type = "heartbeat" THEN "heartbeat"
    ELSE IF ParsedType(f) = "raise" THEN "drop"
    ELSE ParsedType(f)

\* The return value of handle_message (no handler is registered in
\* _message_handlers, so the generic branch returns None).
ReplyTo(f) ==
    CASE Dispatch(f) = "handshake" -> Ack("handshake")
      [] Dispatch(f) = "heartbeat" -> Ack("heartbeat")
      [] Dispatch(f) = "status" -> Ack("status")
      [] OTHER -> NoReply

\* Lines 455-456: conn.messages_received and conn.last_message are updated.
Counted(f) == Dispatch(f) \notin {"drop", "handshake", "heartbeat"}

\* Line 496: the frame reaches _emit_event("message", ...), which calls the
\* on_device_message callbacks, and the handler lookup of line 499. Every
\* branch above it (heartbeat, response, status, event, error) returns first.
Forwarded(f) ==
    Dispatch(f) \in MessageType \ {"heartbeat", "response", "status", "event", "error"}

\* Variant of Resolves: the future is looked up by id alone, without the
\* tests of lines 469 and 471.
ResolvesAnyCall(d, f) ==
    /\ Dispatch(f) = "response"
    /\ f.correlation_id \in 1..Len(calls)

\* Lines 469-472: the pending future of the current connection is resolved.
Resolves(d, f) ==
    /\ Dispatch(f) = "response"
    /\ f.correlation_id \in conn[connections[d]].pending_requests
    /\ calls[f.correlation_id].future = "pending"

\* History only: the frame is a well-formed response to a call that is
\* waiting on the connection the frame arrives on.
Answers(d, f, m) ==
    /\ f.json /\ f.type = "response" /\ f.correlation_id = m
    /\ calls[m].state = "waiting" /\ calls[m].future = "pending"
    /\ calls[m].conn = connections[d]
    /\ calls[m].answered = "none"

\* register(device_type=raw_msg.get("platform", "android")) returns: it
\* raises at device_type.lower() (device_registry.py:274) when the value is
\* not a string; handle_message logs the exception (lines 425-426) and goes on.
Registers(f) == f.platform = "str"

\* device_registry.register as called at lines 413-424: a new record, ONLINE.
AutoRegister(d) ==
    IF registry[d] = "absent" THEN [registry EXCEPT ![d] = "online"] ELSE registry

handle_message(d, f) ==
    /\ reply' = IF connections[d] = 0 THEN NoReply ELSE ReplyTo(f)
    /\ registry' = IF connections[d] # 0 /\ Dispatch(f) = "handshake" /\ Registers(f)
                   THEN AutoRegister(d) ELSE registry
    /\ conn' = IF connections[d] # 0 /\ Dispatch(f) = "heartbeat"
               THEN [conn EXCEPT ![connections[d]].silence = 0]
               ELSE conn
    /\ calls' = [m \in 1..Len(calls) |->
                   [calls[m] EXCEPT
                      !.future = IF connections[d] # 0 /\ Resolves(d, f)
                                    /\ f.correlation_id = m THEN "done" ELSE @,
                      !.value = IF connections[d] # 0 /\ Resolves(d, f)
                                   /\ f.correlation_id = m THEN PayloadOf(f) ELSE @,
                      !.answered = IF connections[d] # 0 /\ Answers(d, f, m)
                                   THEN PayloadOf(f) ELSE @]]
    /\ UNCHANGED <<connections, order, hbTask, hbQueue>>
    /\ UNCHANGED <<mcpVars, manager, codec, coordinator>>

\* -------------------------------------------------------- _heartbeat_loop
\* One iteration of the for loop over the items `queue`, up to its next
\* suspension (in disconnect's close() or in send()). The liveness test reads
\* the snapshot's connection object; disconnect(device_id) and
\* send(device_id, ...) look the device up again.
SweepItem(queue) ==
    /\ hbQueue' = Tail(queue)
    /\ LET d == Head(queue)[1]
           c == Head(queue)[2]
       IN  IF ~is_alive(c) /\ connections[d] # 0
           THEN /\ disconnect_pop(d, "monitor")
                /\ hbTask' = "evicting"
           ELSE /\ hbTask' = AfterItem(Tail(queue))
                /\ UNCHANGED <<connections, order, conn>>
    /\ reply' = NoReply
    /\ UNCHANGED <<mcpVars, manager, codec, coordinator>>
    /\ UNCHANGED <<calls, registry>>

\* asyncio.sleep(heartbeat_interval) returns; the sweep takes its snapshot
\* list(self.connections.items()) and goes through its first item without
\* suspending in between.
heartbeat_wake ==
    /\ hbTask = "sleep"
    /\ order # <<>>
    /\ SweepItem([i \in 1..Len(order) |-> <<order[i], connections[order[i]]>>])

\* The sweep goes on with its next item.
heartbeat_step ==
    /\ hbTask = "sweep"
    /\ hbQueue # <<>>
    /\ SweepItem(hbQueue)

Next ==
    \/ Tick
    \/ \E d \in Devices : connect(d)
    \/ \E d \in Devices : disconnect(d)
    \/ \E c \in 1..MaxObjects : disconnect_finish(c)
    \/ \E d \in Devices : send_command(d)
    \/ \E m \in 1..MaxObjects : command_return(m)
    \/ \E m \in 1..MaxObjects : command_timeout(m)
    \/ \E d \in Devices, f \in Frames : handle_message(d, f)
    \/ heartbeat_wake

Spec == Init /\ [][Next]_vars

\* The event loop keeps running its tasks: the monitor's sleep returns and a
\* close() that was awaited returns or raises. (With the one device of
\* Devices a sweep has one item, taken by heartbeat_wake.)
Fairness ==
    /\ WF_vars(heartbeat_wake)
    /\ WF_vars(\E c \in 1..MaxObjects : disconnect_finish(c))

\* The monitor and what it reads or writes: the active set, last_heartbeat,
\* the registry. send_command and its continuations touch none of these.
NextMonitor ==
    \/ Tick
    \/ \E d \in Devices : connect(d)
    \/ \E d \in Devices : disconnect(d)
    \/ \E c \in 1..MaxObjects : disconnect_finish(c)
    \/ \E d \in Devices, f \in Frames : handle_message(d, f)
    \/ heartbeat_wake

FairSpec == Init /\ [][NextMonitor]_vars /\ Fairness

\* ------------------------------------------------------------ two devices
\* The monitor with two devices in the active set: a sweep has a second item,
\* reached after the suspension of the first.
SweepDevices == {"d1", "d2"}

InitSweep ==
    /\ connections = [d \in SweepDevices |-> 0]
    /\ order = <<>>
    /\ conn = <<>>
    /\ calls = <<>>
    /\ registry = [d \in SweepDevices |-> "absent"]
    /\ hbTask = "none"
    /\ hbQueue = <<>>
    /\ reply = NoReply
    /\ InitLoader /\ InitManager /\ codec = Unused /\ coordinator = Registered

NextSweep ==
    \/ Tick
    \/ \E d \in SweepDevices : connect(d)
    \/ \E d \in SweepDevices : disconnect(d)
    \/ \E c \in 1..MaxObjects : disconnect_finish(c)
    \/ \E d \in SweepDevices, f \in Frames : handle_message(d, f)
    \/ heartbeat_wake
    \/ heartbeat_step

SpecSweep == InitSweep /\ [][NextSweep]_vars

\* ------------------------------------------------------ MCPLoader: actions
\* MCPLoader does its pipe I/O with blocking calls: from the resumption of
\* start() to its return nothing else runs on the event loop. The model takes
\* that stretch one request at a time (hs holds the position) and lets no
\* other coroutine step in between.
Free == loop = "running" /\ hs = Idle

NewServer == [status |-> "stopped", process |-> 0, stopped |-> FALSE]
NewProc == [state |-> "alive", stdout |-> <<>>]
\* A process that has exited or was terminated: poll() is no longer None, a
\* write to its stdin raises, and nothing reads what its stdout still holds.
Dead == [state |-> "exited", stdout |-> <<>>]

Ret(op, s, ok) == [NoRet EXCEPT !.op = op, !.server = s, !.ok = ok]

\* No call returned: one on server s wrote `sent` and sits in readline().
Waiting(s, sent) == [NoRet EXCEPT !.server = s, !.sent = sent]

\* A subprocess exits on its own.
proc_exit(p) ==
    /\ loop = "running"
    /\ p \in 1..Len(proc)
    /\ proc[p].state = "alive"
    /\ proc' = [proc EXCEPT ![p] = Dead]
    /\ ret' = NoRet
    /\ UNCHANGED <<servers, server, request_id, starts, hs, loop>>
    /\ UNCHANGED <<devVars, manager, codec, coordinator>>

\* start(), lines 321-341 of server object s in table srv: status STARTING,
\* Popen, then the coroutine suspends in asyncio.sleep(0.5). Popen raising
\* (no such executable) is caught at line 355: status ERROR, return False.
Spawn(srv, s, spawned) ==
    IF spawned
    THEN [srv EXCEPT ![s].status = "starting", ![s].process = Len(proc) + 1]
    ELSE [srv EXCEPT ![s].status = "error"]

\* The rest of a call of start() on table srv, made by `caller`.
Starting(srv, s, caller) ==
    \E spawned \in BOOLEAN :
        /\ server' = Spawn(srv, s, spawned)
        /\ proc' = IF spawned THEN Append(proc, NewProc) ELSE proc
        /\ starts' = IF spawned
                     THEN starts \cup {[server |-> s, caller |-> caller]}
                     ELSE starts
        /\ ret' = IF spawned THEN NoRet ELSE Ret(caller, s, FALSE)

\* start(server_id) called by a user of the loader.
start(s) ==
    /\ Free
    /\ s \in servers
    /\ Len(server) + Len(proc) < MaxLoaderObjects
    /\ Starting(server, s, "start")
    /\ UNCHANGED <<servers, request_id, hs, loop>>
    /\ UNCHANGED <<devVars, manager, codec, coordinator>>

\* load(name, command, auto_start): lines 255-271, then start() or the
\* success return of lines 282-287.
load(auto_start) ==
    /\ Free
    /\ Len(server) + Len(proc) + (IF auto_start THEN 1 ELSE 0) < MaxLoaderObjects
    /\ servers' = servers \cup {Len(server) + 1}
    /\ IF auto_start
       THEN Starting(Append(server, NewServer), Len(server) + 1, "load")
       ELSE /\ server' = Append(server, NewServer)
            /\ ret' = Ret("load", Len(server) + 1, TRUE)
            /\ UNCHANGED <<proc, starts>>
    /\ UNCHANGED <<request_id, hs, loop>>
    /\ UNCHANGED <<devVars, manager, codec, coordinator>>

\* The status start() leaves when it returns (lines 351 and 356).
StartStatus(raised) == IF raised THEN "error" ELSE "running"

\* start() returns for the coroutine of `caller`.
Started(s, caller, raised, sent) ==
    /\ server' = [server EXCEPT ![s].status = StartStatus(raised)]
    /\ ret' = [Ret(caller, s, ~raised) EXCEPT !.sent = sent]
    /\ hs' = Idle

\* The exchange e of a coroutine takes effect on the pipe.
Piped(e) ==
    /\ proc' = e.proc
    /\ request_id' = e.request_id
    /\ loop' = e.loop

\* The coroutine sits in a readline() that never returns.
Stuck(s, sent) == ret' = Waiting(s, sent) /\ UNCHANGED <<server, hs>>

\* start() after the sleep, lines 343-349, for the suspended coroutine t, up
\* to the end of the `initialize` exchange of _initialize (lines 419-438).
\*   poll() on no process raises, on an exited one gives its code: ERROR;
\*   the handshake goes on only when the line read carries a result; then
\*   notifications/initialized is written, which raises when the process has
\*   exited. The value _initialize returns is not looked at: anything short of
\*   an exception ends in RUNNING.
start_resume(t, reaction) ==
    /\ Free
    /\ t \in starts
    /\ starts' = starts \ {t}
    /\ LET s == t.server
           p == server[s].process
           e == _send_request(s, p, "initialize", reaction)
       IN  IF p = 0
           THEN /\ Started(s, t.caller, TRUE, <<>>)
                /\ UNCHANGED <<proc, request_id, loop>>
           ELSE IF proc[p].state # "alive"
           THEN /\ Started(s, t.caller, TRUE, <<>>)
                /\ UNCHANGED <<proc, request_id, loop>>
           ELSE /\ request_id + 4 <= MaxRequests
                /\ Fits(p, reaction)
                /\ Piped(e)
                /\ IF e.loop = "blocked" THEN Stuck(s, e.sent)
                   ELSE IF e.resp = None \/ e.resp.result = "null"
                   THEN Started(s, t.caller, FALSE, e.sent)
                   ELSE IF s \in servers /\ e.proc[p].state # "alive"
                   THEN Started(s, t.caller, TRUE, e.sent)
                   ELSE /\ hs' = [server |-> s, caller |-> t.caller,
                                  next |-> "tools/list",
                                  wrote |-> "notifications/initialized"]
                        /\ ret' = [NoRet EXCEPT !.sent =
                                      e.sent \o <<"notifications/initialized">>]
                        /\ UNCHANGED server
    /\ UNCHANGED servers
    /\ UNCHANGED <<devVars, manager, codec, coordinator>>

\* Variant of NextList: prompts are listed before resources.
NextListPromptsFirst(method) ==
    CASE method = "tools/list" -> "prompts/list"
      [] method = "prompts/list" -> "resources/list"
      [] OTHER -> ""

\* The order of the list requests in _initialize (lines 441-447).
NextList(method) ==
    CASE method = "tools/list" -> "resources/list"
      [] method = "resources/list" -> "prompts/list"
      [] OTHER -> ""

\* _refresh_tools, _refresh_resources, _refresh_prompts inside _initialize;
\* after the last one start() returns True.
handshake_step(reaction) ==
    /\ loop = "running"
    /\ hs # Idle
    /\ Fits(server[hs.server].process, reaction)
    /\ LET e == _send_request(hs.server, server[hs.server].process, hs.next, reaction)
       IN  /\ Piped(e)
           /\ IF e.loop = "blocked" THEN Stuck(hs.server, e.sent)
              ELSE IF NextList(hs.next) = ""
              THEN Started(hs.server, hs.caller, FALSE, e.sent)
              ELSE /\ hs' = [hs EXCEPT !.next = NextList(hs.next),
                                       !.wrote = IF e.sent = <<>> THEN @ ELSE hs.next]
                   /\ ret' = [NoRet EXCEPT !.sent = e.sent]
                   /\ UNCHANGED server
    /\ UNCHANGED <<servers, starts>>
    /\ UNCHANGED <<devVars, manager, codec, coordinator>>

\* Variant of Stopped: a stop() that keeps the process handle.
StoppedKeepingHandle(srv, s) ==
    [srv EXCEPT ![s].status = "stopped", ![s].stopped = TRUE]

\* stop(), lines 367-375, on table srv: the process is terminated (killed
\* after 5 s) and the handle dropped; status STOPPED.
Stopped(srv, s) ==
    [srv EXCEPT ![s].status = "stopped", ![s].process = 0, ![s].stopped = TRUE]

Terminated(s) ==
    IF server[s].process = 0 THEN proc
    ELSE [proc EXCEPT ![server[s].process] = Dead]

\* stop(server_id) called by a user of the loader.
stop(s) ==
    /\ Free
    /\ s \in servers
    /\ server' = Stopped(server, s)
    /\ proc' = Terminated(s)
    /\ ret' = Ret("stop", s, TRUE)
    /\ UNCHANGED <<servers, request_id, starts, hs, loop>>
    /\ UNCHANGED <<devVars, manager, codec, coordinator>>

\* unload(server_id): stop(), then the server leaves self.servers.
unload(s) ==
    /\ Free
    /\ s \in servers
    /\ server' = Stopped(server, s)
    /\ proc' = Terminated(s)
    /\ servers' = servers \ {s}
    /\ ret' = Ret("unload", s, TRUE)
    /\ UNCHANGED <<request_id, starts, hs, loop>>
    /\ UNCHANGED <<devVars, manager, codec, coordinator>>

\* What call_tool / read_resource / get_prompt return for exchange e
\* (lines 535-540, 554-559, 577-582).
CallRet(op, s, e) ==
    [op |-> op, server |-> s,
     ok |-> e.resp # None /\ ~e.resp.error,
     status |-> server[s].status, sent |-> e.sent,
     request |-> e.id, response |-> e.resp.id]

\* The exchange of a call takes effect; a blocked readline never returns.
Exchanged(op, s, e) ==
    /\ Piped(e)
    /\ ret' = IF e.loop = "blocked" THEN Waiting(s, e.sent) ELSE CallRet(op, s, e)

\* The status check of call_tool (line 523).
Callable(s) == server[s].status = "running"

\* call_tool(server_id, tool_name, arguments): lines 519-540.
call_tool(s, reaction) ==
    /\ Free
    /\ s \in servers
    /\ request_id < MaxRequests
    /\ Fits(server[s].process, reaction)
    /\ IF ~Callable(s)
       THEN /\ ret' = [Ret("call_tool", s, FALSE) EXCEPT !.status = server[s].status]
            /\ UNCHANGED <<proc, request_id, loop>>
       ELSE Exchanged("call_tool", s,
                _send_request(s, server[s].process, "tools/call", reaction))
    /\ UNCHANGED <<servers, server, starts, hs>>
    /\ UNCHANGED <<devVars, manager, codec, coordinator>>

\* read_resource(server_id, uri) and get_prompt(server_id, name, arguments):
\* lines 548-559 and 568-582; neither looks at the status.
CallOps == {"read_resource", "get_prompt"}
Method(op) == IF op = "read_resource" THEN "resources/read" ELSE "prompts/get"

resource_call(op, s, reaction) ==
    /\ Free
    /\ s \in servers
    /\ request_id < MaxRequests
    /\ Fits(server[s].process, reaction)
    /\ Exchanged(op, s,
           _send_request(s, server[s].process, Method(op), reaction))
    /\ UNCHANGED <<servers, server, starts, hs>>
    /\ UNCHANGED <<devVars, manager, codec, coordinator>>

NextLoader ==
    \/ \E p \in 1..MaxLoaderObjects : proc_exit(p)
    \/ \E auto_start \in BOOLEAN : load(auto_start)
    \/ \E s \in 1..MaxLoaderObjects : start(s)
    \/ \E t \in starts, r \in Reactions : start_resume(t, r)
    \/ \E r \in Reactions : handshake_step(r)
    \/ \E s \in 1..MaxLoaderObjects : stop(s)
    \/ \E s \in 1..MaxLoaderObjects : unload(s)
    \/ \E s \in 1..MaxLoaderObjects, r \in Reactions : call_tool(s, r)
    \/ \E op \in CallOps, s \in 1..MaxLoaderObjects, r \in Reactions : resource_call(op, s, r)

SpecLoader == Init /\ [][NextLoader]_vars

\* ------------------------------------------------- two process sessions
\* The loader after load(auto_start=True) was called twice and each peer
\* answered its initialize request with an error response: two sessions,
\* both RUNNING, each with a live process, ids 1 and 2 used.
InitTwoPeers ==
    /\ InitDevice
    /\ servers = {1, 2}
    /\ server = [s \in 1..2 |-> [NewServer EXCEPT !.status = "running", !.process = s]]
    /\ proc = [p \in 1..2 |-> NewProc]
    /\ request_id = 2
    /\ starts = {}
    /\ hs = Idle
    /\ loop = "running"
    /\ ret = [Ret("load", 2, TRUE) EXCEPT !.sent = <<"initialize">>]
    /\ InitManager
    /\ codec = Unused /\ coordinator = Registered

\* The calls made on the two sessions, and what ends them.
NextTwoPeers ==
    \/ \E p \in 1..2 : proc_exit(p)
    \/ \E s \in 1..2 : stop(s)
    \/ \E s \in 1..2 : unload(s)
    \/ \E s \in 1..2, r \in Reactions : call_tool(s, r)
    \/ \E op \in CallOps, s \in 1..2, r \in Reactions : resource_call(op, s, r)

SpecTwoPeers == InitTwoPeers /\ [][NextTwoPeers]_vars

\* --------------------------------------------------- MCPManager: actions
\* The "id" member of every request MCPManager writes (mcp_manager.py:260).
ManagerRequestId == 1

\* What the peer does with a request of MCPManager: a reply with a top-level
\* "tools" key, a reply with a "result" key, no reply, or closing its stdout.
ManagerReactions == {"tools", "result", "silent", "close"}

\* MCPManager._send_request on entry m, lines 254-274: nothing without a
\* process; the write raises on an exited process (caught, None); otherwise
\* the request is written with its id and one line is read with a blocking
\* readline().
manager_send_request(m, reaction) ==
    IF m.process # "alive" THEN m
    ELSE [m EXCEPT !.ids = Append(@, ManagerRequestId),
                   !.process = IF reaction = "close" THEN "exited" ELSE @]

\* The event loop after that request.
ManagerLoop(m, reaction) ==
    IF m.process = "alive" /\ reaction = "silent" THEN "blocked" ELSE loop

ManagerUnchanged ==
    /\ UNCHANGED <<servers, server, proc, request_id, starts, hs, ret>>
    /\ UNCHANGED <<devVars, codec, coordinator>>

\* start_server(name) up to the sleep, lines 157-179; Popen raising is caught
\* at line 196. The new handle is assigned over the old one (line 170).
ManagerStarting(n, m) ==
    \E spawned \in BOOLEAN :
        manager' = [manager EXCEPT ![n] =
                       IF spawned
                       THEN [m EXCEPT !.status = "starting", !.process = "alive",
                                      !.ids = <<>>, !.sleeping = TRUE,
                                      !.orphan = @ \/ m.process = "alive"]
                       ELSE [m EXCEPT !.status = "error"]]

\* load_server(name, command, auto_start), lines 142-153: a new entry
\* replaces the one of that name; self.tools is left as it is.
load_server(n, auto_start) ==
    /\ loop = "running"
    /\ ~manager[n].sleeping
    /\ LET m == [manager[n] EXCEPT !.loaded = TRUE, !.status = "stopped",
                                   !.process = "none", !.ids = <<>>,
                                   !.listed = 0, !.last = 0,
                                   !.orphan = @ \/ manager[n].process = "alive"]
       IN  IF auto_start THEN ManagerStarting(n, m)
           ELSE manager' = [manager EXCEPT ![n] = m]
    /\ UNCHANGED loop
    /\ ManagerUnchanged

start_server(n) ==
    /\ loop = "running"
    /\ ~manager[n].sleeping
    /\ manager[n].loaded
    /\ ManagerStarting(n, manager[n])
    /\ UNCHANGED loop
    /\ ManagerUnchanged

\* The subprocess of an entry exits on its own.
manager_proc_exit(n) ==
    /\ loop = "running"
    /\ manager[n].process = "alive"
    /\ manager' = [manager EXCEPT ![n].process = "exited"]
    /\ UNCHANGED loop
    /\ ManagerUnchanged

\* The tools a tools/list reply with a "tools" key advertises: one, named t.
Advertised == 1

\* MCPServer.tools after _discover_tools got a reply with a "tools" key
\* (lines 234-242): every tool of the reply is appended.
Discovered(listed) == listed + Advertised

\* start_server after the sleep, lines 181-199: poll() raises on no process
\* and gives the exit code of an exited one (ERROR); otherwise RUNNING and
\* _discover_tools (lines 229-245) sends tools/list and fills server.tools
\* and self.tools from a reply with a "tools" key; self.tools[name] = tool
\* (line 241) takes the name over from whichever server had it.
start_server_resume(n, reaction) ==
    /\ loop = "running"
    /\ manager[n].sleeping
    /\ Len(manager[n].ids) < MaxRequests
    /\ manager[n].listed < MaxListed
    /\ IF manager[n].process # "alive"
       THEN /\ manager' = [manager EXCEPT ![n].status = "error",
                                          ![n].sleeping = FALSE]
            /\ UNCHANGED loop
       ELSE /\ manager' = [k \in ManagerNames |->
                  IF k = n
                  THEN [manager_send_request(
                            [manager[n] EXCEPT !.status = "running", !.sleeping = FALSE],
                            reaction)
                        EXCEPT !.tools = @ \/ reaction = "tools",
                               !.listed = IF reaction = "tools" THEN Discovered(@) ELSE @,
                               !.last = IF reaction = "tools" THEN Advertised ELSE @]
                  ELSE [manager[k] EXCEPT !.tools = @ /\ reaction # "tools"]]
            /\ loop' = ManagerLoop(manager[n], reaction)
    /\ ManagerUnchanged

\* stop_server(name), lines 204-220: the tools of self.tools whose server_name
\* is this server are deleted; server.tools is left as it is.
stop_server(n) ==
    /\ loop = "running"
    /\ manager[n].loaded
    /\ manager' = [manager EXCEPT ![n].process = "none", ![n].status = "stopped",
                                  ![n].tools = FALSE]
    /\ UNCHANGED loop
    /\ ManagerUnchanged

\* MCPManager.call_tool(tool_name, params) for a tool of entry n, lines
\* 304-322: raises without writing when the tool is unknown or the server is
\* not RUNNING.
manager_call_tool(n, reaction) ==
    /\ loop = "running"
    /\ Len(manager[n].ids) < MaxRequests
    /\ IF manager[n].tools /\ manager[n].loaded /\ manager[n].status = "running"
       THEN /\ manager' = [manager EXCEPT ![n] = manager_send_request(@, reaction)]
            /\ loop' = ManagerLoop(manager[n], reaction)
       ELSE UNCHANGED <<manager, loop>>
    /\ ManagerUnchanged

NextManager ==
    \/ \E n \in ManagerNames, auto_start \in BOOLEAN : load_server(n, auto_start)
    \/ \E n \in ManagerNames : start_server(n)
    \/ \E n \in ManagerNames : manager_proc_exit(n)
    \/ \E n \in ManagerNames, r \in ManagerReactions : start_server_resume(n, r)
    \/ \E n \in ManagerNames : stop_server(n)
    \/ \E n \in ManagerNames, r \in ManagerReactions : manager_call_tool(n, r)

SpecManager == Init /\ [][NextManager]_vars

\* ------------------------------------------------- sessions of both kinds
\* The life cycle of socket sessions and of process sessions side by side:
\* what creates, starts and stops a session, without the calls made on it.
NextLifecycle ==
    \/ \E d \in Devices : connect(d)
    \/ \E d \in Devices : disconnect(d)
    \/ \E c \in 1..MaxObjects : disconnect_finish(c)
    \/ \E p \in 1..MaxLoaderObjects : proc_exit(p)
    \/ \E auto_start \in BOOLEAN : load(auto_start)
    \/ \E s \in 1..MaxLoaderObjects : start(s)
    \/ \E t \in starts, r \in Reactions : start_resume(t, r)
    \/ \E r \in Reactions : handshake_step(r)
    \/ \E s \in 1..MaxLoaderObjects : stop(s)
    \/ \E s \in 1..MaxLoaderObjects : unload(s)

SpecLifecycle == Init /\ [][NextLifecycle]_vars

\* ================================================================= claims
\* ------------------------------------------------------------------- C1
\* C1: a send_command call that was sent and for which handle_message was
\* given, while the call was waiting, a well-formed `response` frame whose
\* correlation_id is the call's message_id (with or without a payload field)
\* returns that response's payload.
C1_ResponseReturned ==
    \A m \in 1..Len(calls) :
        (calls[m].state = "returned" /\ calls[m].answered # "none")
            => calls[m].result = calls[m].answered

\* ------------------------------------------------------------------- C2
\* C2: the response a process-session call hands back carries the id of the
\* request that call issued.
C2_ResponseCarriesRequestId ==
    (ret.op \in CallOps \cup {"call_tool"} /\ ret.response # -1)
        => ret.response = ret.request

\* ------------------------------------------------------------------- C3
\* C3: a send_command call that was sent and whose future no response
\* resolved returns the timeout error, and from then on no pending_requests
\* table holds an entry for its message_id.
C3_TimeoutCleansUp ==
    \A m \in 1..Len(calls) :
        (calls[m].state = "returned" /\ calls[m].sent /\ calls[m].future # "done")
            => /\ calls[m].result = "timeout"
               /\ \A c \in 1..Len(conn) : m \notin conn[c].pending_requests

C3_Witness ==
    \E m \in 1..Len(calls) :
        /\ calls[m].state = "returned" /\ calls[m].sent
        /\ calls[m].result = "timeout"
        /\ m \notin conn[calls[m].conn].pending_requests

\* ------------------------------------------------------------------- C4
\* C4: once the stop of a session (disconnect or eviction) has completed, none
\* of the calls that were pending on it is still waiting.
C4_StopResolvesPending ==
    \A m \in 1..Len(calls) :
        calls[m].state = "waiting" => conn[calls[m].conn].stop # "closed"

\* ------------------------------------------------------------------- C5
\* C5 as stated: no pending_requests table holds an entry whose future has
\* already been resolved.
C5_NoResolvedEntry ==
    \A c \in 1..Len(conn) :
        \A m \in conn[c].pending_requests : calls[m].future = "pending"

\* C5 amended: a pending_requests table holds entries only of calls that have
\* not returned yet, each in the table of the connection it was sent on; the
\* entry is gone once the call has returned, whatever the exit path (response,
\* timeout, send failure).
C5_EntriesOfWaitingCalls ==
    /\ \A c \in 1..Len(conn) :
         \A m \in conn[c].pending_requests :
             calls[m].state = "waiting" /\ calls[m].conn = c
    /\ \A m \in 1..Len(calls) :
         calls[m].state = "returned"
             => \A c \in 1..Len(conn) : m \notin conn[c].pending_requests

C5_Witness ==
    \E m \in 1..Len(calls) :
        /\ calls[m].state = "returned"
        /\ calls[m].future = "done"
        /\ m \notin conn[calls[m].conn].pending_requests

\* ------------------------------------------------------------------- C6
\* The session c is in the active connection set and has had no liveness
\* signal for heartbeat_timeout seconds.
Stale(c) ==
    /\ c <= Len(conn)
    /\ connections[conn[c].device_id] = c
    /\ conn[c].silence >= heartbeat_timeout

\* The session c has left the active set, or a liveness signal has arrived.
GoneOrRevived(c) ==
    /\ c <= Len(conn)
    /\ \/ connections[conn[c].device_id] # c
       \/ conn[c].silence < heartbeat_timeout

\* The monitor has removed session c from the active set and awaits its stop.
Evicting(c) == c <= Len(conn) /\ conn[c].stop = "monitor"

\* The stop of session c has completed.
SessionStopped(c) ==
    c <= Len(conn) /\ conn[c].stop = "closed" /\ conn[c].websocket = "closed"

\* C6: a session in the active set without a liveness signal for
\* heartbeat_timeout seconds does not stay there: unless a signal arrives it
\* leaves the active set; a session the monitor removes is then stopped (its
\* websocket closed), and when that stop completes the registry has been told
\* the device is offline.
C6_StaleSessionEvicted ==
    /\ \A c \in 1..MaxObjects : Stale(c) ~> GoneOrRevived(c)
    /\ \A c \in 1..MaxObjects : Evicting(c) ~> SessionStopped(c)
    /\ [][\A c \in 1..Len(conn) :
            (conn[c].stop = "monitor" /\ conn'[c].stop = "closed")
                => /\ connections'[conn[c].device_id] # c
                   /\ registry'[conn[c].device_id] # "online"]_vars

C6_Witness ==
    \E c \in 1..Len(conn) :
        /\ conn[c].stop = "monitor"
        /\ conn[c].silence >= heartbeat_timeout
        /\ connections[conn[c].device_id] = 0

\* ------------------------------------------------------------------- C7
\* C7: handle_message given a `heartbeat` frame for a connected device returns
\* an ack with action heartbeat, sets the session's last_heartbeat to the
\* current time, and leaves every pending_requests table and every pending
\* call as it was.
C7_HeartbeatAcked ==
    [][\A d \in Devices : \A f \in Frames :
         (connections[d] # 0 /\ f.json /\ f.type = "heartbeat" /\ handle_message(d, f))
             => /\ reply' = Ack("heartbeat")
                /\ conn'[connections[d]].silence = 0
                /\ \A c \in 1..Len(conn) :
                     conn'[c].pending_requests = conn[c].pending_requests
                /\ calls' = calls]_vars

C7_Witness ==
    \E d \in Devices :
        /\ connections[d] # 0
        /\ reply = Ack("heartbeat")
        /\ conn[connections[d]].silence = 0
        /\ conn[connections[d]].pending_requests # {}

\* ------------------------------------------------------------------- C8
\* C8: when load() spawned its process and returns a failure (the process
\* exited within the startup probe window), servers holds no session for that
\* load.
C8_FailedLoadLeavesNoSession ==
    (ret.op = "load" /\ ~ret.ok /\ server[ret.server].process # 0)
        => ret.server \notin servers

\* ------------------------------------------------------------------- C9
\* C9: a call_tool, read_resource or get_prompt made on a session whose status
\* is not RUNNING fails and writes no request to the peer.
C9_NotRunningCallFails ==
    (ret.op \in CallOps \cup {"call_tool"} /\ ret.status # "running")
        => (~ret.ok /\ ret.sent = <<>>)

\* ------------------------------------------------------------------ C10
\* C10: a session that stop() has set to STOPPED, or whose start failed
\* (ERROR), is never moved to STARTING or RUNNING again.
C10_ClosedIsTerminal ==
    [][\A s \in 1..Len(server) :
         ((server[s].status = "stopped" /\ server[s].stopped)
            \/ server[s].status = "error")
             => server'[s].status \notin {"starting", "running"}]_vars

Unrecognizable(f) ==
    ~f.json \/ f.type \notin MessageType \cup {"handshake", "TEXT"}

\* C12: handle_message given an unrecognizable frame for a connected device
\* returns no reply, calls no handler or callback, and leaves the connections,
\* their pending requests, last_heartbeat and counters, and the calls as they
\* were.
C12_MalformedDropped ==
    [][\A d \in Devices : \A f \in Frames :
         (connections[d] # 0 /\ Unrecognizable(f) /\ handle_message(d, f))
             => /\ reply' = NoReply
                /\ ~Forwarded(f)
                /\ ~Counted(f)
                /\ conn' = conn
                /\ calls' = calls]_vars

\* ------------------------------------------------------------------ C15
\* C15: a response that finds no pending entry to resolve is a no-op. No step
\* resolves a future unless that future is pending, is in the pending_requests
\* table of its connection and that connection is the device's current one (so
\* a late or duplicate response, or one with an id never issued, resolves
\* nothing); no step changes a call that has returned; and a pending_requests
\* table changes only when a call registers or returns.
C15_UnmatchedResponseIgnored ==
    [][/\ \A m \in 1..Len(calls) :
            /\ calls[m].state = "returned" => calls'[m] = calls[m]
            /\ (calls'[m].future = "done" /\ calls[m].future # "done")
                   => /\ calls[m].future = "pending"
                      /\ m \in conn[calls[m].conn].pending_requests
                      /\ connections[calls[m].device_id] = calls[m].conn
       /\ \A c \in 1..Len(conn) :
            conn'[c].pending_requests # conn[c].pending_requests
                => \/ Len(calls') > Len(calls)
                   \/ \E m \in 1..Len(calls) :
                          calls[m].state = "waiting" /\ calls'[m].state = "returned"]_vars

\* A call has timed out and another has been answered but has not resumed,
\* both on the connection that is still the device's: a late response to the
\* first and a duplicate response to the second can arrive.
C15_Witness ==
    \E m, n \in 1..Len(calls) :
        /\ calls[m].state = "returned" /\ calls[m].result = "timeout"
        /\ connections[calls[m].device_id] = calls[m].conn
        /\ calls[n].state = "waiting" /\ calls[n].future = "done"
        /\ calls[n].conn = calls[m].conn
        /\ reply = NoReply

\* ------------------------------------------------------------------ C17
\* C17: a well-formed event, status or heartbeat frame, which resolves no
\* pending entry, reaches the on_device_message callbacks.
C17_UnsolicitedForwarded ==
    [][\A d \in Devices : \A f \in Frames :
         (/\ connections[d] # 0
          /\ f.json /\ f.type \in {"event", "status", "heartbeat"}
          /\ handle_message(d, f))
             => Forwarded(f)]_vars

\* ------------------------------------------------------------------ C18
\* C18: when handle_message returns the handshake ack for a connected device,
\* the registry holds a record of that device.
C18_HandshakeRegisters ==
    \A d \in Devices :
        (connections[d] # 0 /\ reply = Ack("handshake")) => registry[d] # "absent"

\* ------------------------------------------------------------------ C19
\* The test of line 434 for the initialize exchange of the start() coroutine
\* t: a response was read and its result is not empty.
InitializeResult(t, reaction) ==
    LET s == t.server
        p == server[s].process
        resp == _send_request(s, p, "initialize", reaction).resp
    IN  /\ p # 0
        /\ proc[p].state = "alive"
        /\ resp # None
        /\ resp.result # "null"

\* C19: when the initialize request of a start() got no successful result,
\* that start() reports failure and does not leave the session RUNNING.
C19_RunningOnlyAfterInitialize ==
    [][\A t \in starts, r \in Reactions :
          (start_resume(t, r) /\ ~InitializeResult(t, r))
              => (server'[t.server].status # "running" /\ ~ret'.ok)]_vars

\* ------------------------------------------------------------------ C20
\* The messages of the handshake in the order of _initialize.
HandshakeOrder ==
    <<"initialize", "notifications/initialized",
      "tools/list", "resources/list", "prompts/list">>

Lists == {HandshakeOrder[i] : i \in 3..5}

Before(method) ==
    HandshakeOrder[(CHOOSE i \in 2..5 : HandshakeOrder[i] = method) - 1]

C13_WaitingCallIsolated ==
    \A b \in servers :
        ( /\ loop = "blocked" /\ ret.op = "none" /\ ret.server \notin {0, b}
          /\ Callable(b)
          /\ server[b].process # 0
          /\ proc[server[b].process].state = "alive"
          /\ request_id < MaxRequests
          /\ Fits(server[b].process, "answer") )
        => ENABLED call_tool(b, "answer")

\* ------------------------------------------------------------------ C16
\* C16: the ids of the requests written to one session are strictly
\* increasing in the order they were issued.
C16_RequestIdsIncrease ==
    \A n \in ManagerNames : \A i, j \in 1..Len(manager[n].ids) :
        i < j => manager[n].ids[i] < manager[n].ids[j]

\* ------------------------------------------------------------------ C14
\* C14 as stated: DeviceMessage.from_json(m.to_json()) equals m, whatever m
\* was built from.
C14_RoundTrip ==
    codec.stage = "decoded" => Equal(codec.decoded, codec.msg)

\* C14, for the messages JSON can carry: when the payload of m is None or a
\* dict with string keys holding strings, numbers, lists and such dicts, and
\* its timestamp is not a nan, DeviceMessage.from_json(m.to_json()) equals m
\* field by field, for every message type.
C14_RoundTripJsonValues ==
    (/\ codec.stage = "decoded"
     /\ codec.msg.payload \in JsonPayloads
     /\ codec.msg.timestamp # "nan")
        => Equal(codec.decoded, codec.msg)

C14_Witness ==
    /\ codec.stage = "decoded"
    /\ codec.msg.type = "STREAM_DATA"
    /\ codec.msg.payload = "{'k': [1, 2]}"
    /\ codec.msg.timestamp = "5"
    /\ codec.msg.correlation_id = "x"
    /\ codec.wire.payload = <<"object", "{\"k\": [1, 2]}">>
    /\ codec.decoded = codec.msg

\* ------------------------------------------------------------------ C21
\* C21: once a call_tool made on a RUNNING session has found the session's
\* subprocess dead (its request could not be written), the session is no
\* longer RUNNING.
C21_DeadProcessCloses ==
    ( /\ ret.op = "call_tool"
      /\ ret.status = "running"
      /\ ret.sent = <<>>
      /\ server[ret.server].process # 0
      /\ proc[server[ret.server].process].state = "exited" )
        => server[ret.server].status # "running"

\* ------------------------------------------------------------------ C22
\* C22: a send_command whose write failed has returned the send failure, its
\* pending entry is gone, and its session is marked degraded.
C22_SendFailureDegrades ==
    \A m \in 1..Len(calls) :
        (calls[m].state = "returned" /\ ~calls[m].sent)
            => /\ calls[m].result = "send_failed"
               /\ m \notin conn[calls[m].conn].pending_requests
               /\ conn[calls[m].conn].status = "degraded"

\* ------------------------------------------------------------------ C23
\* C23: the tool list of a server entry holds exactly the tools of the last
\* tools/list reply that carried tools.
C23_SnapshotIsLastResponse ==
    \A n \in ManagerNames : manager[n].listed = manager[n].last

\* ------------------------------------------------------------------ C24
\* C24: the monitor removes a connection from the active set only when that
\* connection's own last_heartbeat is older than heartbeat_timeout.
C24_EvictsOnlyStaleSession ==
    [][\A c \in 1..Len(conn) :
          (conn[c].stop = "no" /\ conn'[c].stop = "monitor") => ~is_alive(c)]_vars

\* ------------------------------------------------------------------ C25
\* C25: the monitor removes a connection from the active set only when an
\* earlier failed liveness check had already marked it degraded.
C25_EvictsOnlyDegraded ==
    [][\A c \in 1..Len(conn) :
          (conn[c].stop = "no" /\ conn'[c].stop = "monitor")
              => conn[c].status = "degraded"]_vars

\* ------------------------------------------------------------------ C26
\* The peer's answer to command m that reports an error: type "error",
\* correlation_id m, the error as payload.
ErrorAnswer(m) == Frame(TRUE, "error", "P", m)

\* C26: when handle_message is given the peer's error answer to a command
\* that is waiting on that connection, the command's future is resolved with
\* the error payload.
C26_PeerErrorReturned ==
    [][\A d \in Devices : \A m \in 1..Len(calls) :
          ( /\ connections[d] # 0
            /\ calls[m].conn = connections[d]
            /\ calls[m].state = "waiting"
            /\ calls[m].future = "pending"
            /\ handle_message(d, ErrorAnswer(m)) )
          => (calls'[m].future = "done" /\ calls'[m].value = "P")]_vars

\* ------------------------------------------------------------------ C27
\* A disconnect() of device d has popped the entry and not yet returned.
Disconnecting(d) ==
    \E c \in 1..Len(conn) :
        conn[c].device_id = d /\ conn[c].stop \in {"caller", "monitor"}

\* C27: for a registered device with no disconnect() in flight, the registry
\* says online exactly when the device is in the active set.
C27_RegistryMatchesActiveSet ==
    \A d \in Devices :
        (registry[d] # "absent" /\ ~Disconnecting(d))
            => (registry[d] = "online" <=> connections[d] # 0)

\* ------------------------------------------------------------------ C28
\* C28: a start_server() on an entry that holds a live subprocess does not
\* leave that subprocess alive and unreferenced.
C28_NoOrphanProcess ==
    [][\A n \in ManagerNames :
          (manager[n].process = "alive" /\ ~manager[n].orphan /\ start_server(n))
              => ~manager'[n].orphan]_vars

\* ------------------------------------------------------------------ C29
\* Server k is RUNNING and its tool list holds the tool t.
Advertises(k) == manager[k].status = "running" /\ manager[k].listed > 0

\* The global tool table routes t to server k, which is RUNNING and has it.
Routed(k) == manager[k].tools /\ Advertises(k)

\* C29: when a server is stopped while another RUNNING server advertises the
\* tool t and t is routed to a RUNNING server that has it, t is still routed
\* to such a server afterwards.
C29_StopKeepsOtherServersTools ==
    [][\A n, k \in ManagerNames :
          ( /\ n # k
            /\ Advertises(k)
            /\ \E j \in ManagerNames : Routed(j)
            /\ stop_server(n) )
          => \E j \in ManagerNames :
                 /\ manager'[j].tools
                 /\ manager'[j].status = "running"
                 /\ manager'[j].listed > 0]_vars

\* ------------------------------------------------------------------ C30
\* Task t holds device d: t is ASSIGNED or RUNNING and d is one of its
\* assigned devices.
Holds(t, d) ==
    /\ coordinator.tasks[t].state \in {"assigned", "running"}
    /\ d \in Elements(coordinator.tasks[t].assigned_devices)

\* Device d is BUSY on behalf of task t.
BusyWith(d, t) ==
    /\ coordinator.devices[d].state = "busy"
    /\ coordinator.devices[d].current_task = t

\* C30: under any interleaving of assign_task, execute_task and cancel_task a
\* device is held by at most one ASSIGNED or RUNNING task, it is BUSY with
\* current_task = t exactly while t holds it, and it stays so while an
\* execute_task(t) is still sending the subtasks of t.
C30_DeviceHeldByOneTask ==
    \A d \in Elements(CoordDevices) :
        /\ Cardinality({t \in Elements(CoordTasks) : Holds(t, d)}) <= 1
        /\ \A t \in Elements(CoordTasks) : Holds(t, d) <=> BusyWith(d, t)
        /\ \A e \in 1..Len(coordinator.executing) :
              LET t == coordinator.executing[e].task
              IN d \in Elements(coordinator.tasks[t].assigned_devices) => BusyWith(d, t)
====
